---- MODULE Spec2Model ----
(***************************************************************************)
(* examples/transparent_texture/main.rs of amethyst: the Loading and       *)
(* Example states, the systems registered in main() and ExampleSystem::run *)
(* (camera orbit and FPS overlay).                                         *)
(*                                                                         *)
(* f32 values are kept as their IEEE-754 binary32 bit patterns (sign bit   *)
(* clear, normal numbers and +0.0 only) and the two operations run() uses, *)
(* `*` and `+=`, round to nearest, ties to even, as the hardware does.     *)
(***************************************************************************)
EXTENDS Integers, Sequences, FiniteSets, TLC

\* ------------------------------------------------------------------------
\* Bounds of the model
\* ------------------------------------------------------------------------

\* Last frame number the clock reaches.
MaxFrame == 41

\* Largest total of elapsed whole seconds the clock hands out.
MaxElapsed == 1

\* Last frame number that can begin while the assets are still loading.
MaxLoadingFrame == 2

\* The same two bounds for the orbit specification (few frames, long deltas).
MaxOrbitFrame == 12

MaxOrbitElapsed == 10

\* ------------------------------------------------------------------------
\* binary32 arithmetic
\* ------------------------------------------------------------------------

TwoP12 == 2^12

TwoP22 == 2^22

TwoP23 == 2^23

TwoP24 == 2^24

\* Biased exponent field and significand (with the hidden bit) of a pattern.
F32Exp(b) == b \div TwoP23

F32Mant(b) == IF b = 0 THEN 0 ELSE TwoP23 + (b % TwoP23)

\* The value of a pattern b is F32Mant(b) * 2^F32E(b).
F32E(b) == F32Exp(b) - 150

F32Pack(m, e) == IF m = 0 THEN 0 ELSE (e + 150) * TwoP23 + (m - TwoP23)

\* q + r/(2*half) rounded to the nearest integer, ties to even.
RoundEven(q, r, half) ==
    IF r > half \/ (r = half /\ q % 2 = 1) THEN q + 1 ELSE q

\* Pattern of q * 2^e, q in [2^23, 2^24] (2^24 after a rounding carry).
F32Carry(q, e) == IF q = TwoP24 THEN F32Pack(TwoP23, e + 1) ELSE F32Pack(q, e)

\* Number of bits of a positive integer.
RECURSIVE BitLen(_)
BitLen(n) == IF n = 0 THEN 0 ELSE 1 + BitLen(n \div 2)

\* Pattern nearest to the exact value m * 2^e (m < 2^31).
F32Norm(m, e) ==
    IF m = 0 THEN 0
    ELSE LET len == BitLen(m) IN
         IF len <= 24
         THEN F32Pack(m * 2^(24 - len), e - (24 - len))
         ELSE LET k == len - 24 IN
              F32Carry(RoundEven(m \div 2^k, m % 2^k, 2^(k - 1)), e + k)

\* a + b in binary32: the smaller operand is aligned with three extra bits
\* (guard, round, sticky) and the sum is rounded once.
F32Add(a, b) ==
    IF a = 0 THEN b
    ELSE IF b = 0 THEN a
    ELSE LET hi == IF F32E(a) >= F32E(b) THEN a ELSE b
             lo == IF F32E(a) >= F32E(b) THEN b ELSE a
             d  == F32E(hi) - F32E(lo)
         IN  IF d >= 26 THEN hi
             ELSE LET wide   == F32Mant(lo) * 8
                      kept   == wide \div 2^d
                      sticky == IF wide % 2^d # 0 /\ kept % 2 = 0 THEN 1 ELSE 0
                  IN  F32Norm(F32Mant(hi) * 8 + kept + sticky, F32E(hi) - 3)

\* a * b in binary32: the 48-bit product of the significands is formed from
\* 12-bit halves, then rounded to 24 bits.
F32Mul(a, b) ==
    IF a = 0 \/ b = 0 THEN 0
    ELSE LET a1  == F32Mant(a) \div TwoP12
             a0  == F32Mant(a) % TwoP12
             b1  == F32Mant(b) \div TwoP12
             b0  == F32Mant(b) % TwoP12
             low == a0 * b0
             mid == a1 * b0 + a0 * b1 + (low \div TwoP12)
             top == a1 * b1 + (mid \div TwoP12)
             rem == (mid % TwoP12) * TwoP12 + (low % TwoP12)
             e   == F32E(a) + F32E(b)
         IN  IF top >= TwoP23
             THEN F32Carry(RoundEven(top, rem, TwoP23), e + 24)
             ELSE F32Carry(RoundEven(top * 2 + (rem \div TwoP23),
                                     rem % TwoP23, TwoP22), e + 23)

\* Whole seconds as an f32 (exact for the small values the clock uses).
F32FromInt(n) == F32Norm(n, 0)

\* The exact value of a pattern in units of 2^-27 radian (every angle of
\* the model is a multiple of that unit).
Exact(b) ==
    IF b = 0 THEN 0
    ELSE IF F32E(b) + 27 >= 0 THEN F32Mant(b) * 2^(F32E(b) + 27)
    ELSE F32Mant(b) \div 2^(0 - (F32E(b) + 27))

\* ------------------------------------------------------------------------
\* Names and data of the example
\* ------------------------------------------------------------------------

None == "none"

\* Entities that can answer to the name "fps_text".
UiEntities == {"fps_a", "fps_b"}

\* The steps of one frame: the state's update, then the dispatched systems.
Systems == {"example_system", "fps_counter_system"}

Steps == {"state_update"} \cup Systems

\* Dependencies given for "example_system" at registration.
ExampleSystemDeps == {}

\* Whole seconds the clock can report as one frame's elapsed time.
ClockSeconds == {0, 1, 10}

\* Values the FPS counter can report: 60.0 and 62.345.
FpsSamples == {1114636288, 1115251016}

\* Frame tag of the sample the FPS counter holds before its first run.
NoSample == 0 - 1

\* written_sample of a tick in which run() wrote no text.
NoWrite == 0 - 2

\* Text of a freshly created UiText.
NoText == ""

\* An orientation is base, multiplied on the left by a rotation of `pre`
\* and on the right by a rotation of `post` about the z axis (angles in
\* units of 2^-27 radian); a translation is vec turned by `rot` about z.
Identity == [base |-> "identity", pre |-> 0, post |-> 0]

\* The transform built for the plane mesh.
MeshTransform ==
    [rotation    |-> Identity,
     translation |-> [vec |-> <<-5, -5, 5>>, rot |-> 0],
     scale       |-> <<8, 8, 8>>]

\* The entities of the scene prefab that carry a Transform: a tilted camera
\* off the z axis, a camera on the z axis, and a light without Camera.
PrefabTransforms ==
    [e \in {"camera_a", "camera_b", "light"} |->
        [rotation    |-> IF e = "camera_a"
                         THEN [base |-> "tilted", pre |-> 0, post |-> 0]
                         ELSE Identity,
         translation |-> [vec |-> IF e = "camera_b" THEN <<0, 0, 10>>
                                  ELSE <<0, -20, 10>>,
                          rot |-> 0],
         scale       |-> <<1, 1, 1>>]]

\* Prefab entities with a Camera; "camera_c" has no Transform.
PrefabCameras == {"camera_a", "camera_b", "camera_c"}

VARIABLES
    state,          \* state on top of the state machine
    started,        \* on_start of that state has run
    progress,       \* what Loading.progress.complete() returns
    prefab,         \* Loading.prefab
    scene,          \* Example.scene
    panicked,       \* an unwrap failed
    entities,       \* entities this example or its prefab created
    camera,         \* storage of Camera: entities that have one
    transforms,     \* storage of Transform
    ui_text,        \* storage of UiText: the text of each entity that has one
    finder_fps,     \* what UiFinder::find("fps_text") returns
    frame_number,   \* Time::frame_number
    delta_seconds,  \* Time::delta_seconds, an f32
    absolute_time,  \* Time::absolute_time, whole seconds
    sampled_fps,    \* FPSCounter::sampled_fps, an f32
    fps_frame,      \* frame in which sampled_fps was produced
    camera_angle,   \* DemoState.camera_angle, an f32
    fps_display,    \* ExampleSystem.fps_display
    pending,        \* steps of the current frame that have not run yet
    lookup_called,  \* run() called finder.find in the current frame
    found_ever,     \* some call of finder.find by run() returned an entity
    written_sample  \* fps_frame of the sample run() wrote in this frame

vars == <<state, started, progress, prefab, scene, panicked, entities, camera,
          transforms, ui_text, finder_fps, frame_number, delta_seconds,
          absolute_time, sampled_fps, fps_frame, camera_angle, fps_display,
          pending, lookup_called, found_ever, written_sample>>

appVars == <<state, started, progress, prefab, scene, panicked>>

worldVars == <<entities, camera, transforms>>

uiVars == <<ui_text, finder_fps>>

clockVars == <<frame_number, delta_seconds, absolute_time>>

fpsVars == <<sampled_fps, fps_frame>>

systemVars == <<camera_angle, fps_display>>

tickVars == <<lookup_called, found_ever, written_sample>>

\* Loading::default(), ExampleSystem::default(), DemoState::default() and an
\* empty world at frame 0.
Init ==
    /\ state = "Loading"
    /\ started = FALSE
    /\ progress = "Complete"
    /\ prefab = None
    /\ scene = None
    /\ panicked = FALSE
    /\ entities = {}
    /\ camera = {}
    /\ transforms = <<>>
    /\ ui_text = <<>>
    /\ finder_fps = None
    /\ frame_number = 0
    /\ delta_seconds = 0
    /\ absolute_time = 0
    /\ sampled_fps = 0
    /\ fps_frame = NoSample
    /\ camera_angle = 0
    /\ fps_display = None
    /\ pending = Steps
    /\ lookup_called = FALSE
    /\ found_ever = FALSE
    /\ written_sample = NoWrite

Running == state # "Quit" /\ ~panicked

\* ------------------------------------------------------------------------
\* Loading and Example
\* ------------------------------------------------------------------------

\* Loading::on_start: three loads are registered with the progress counter.
LoadingOnStart ==
    /\ Running /\ state = "Loading" /\ ~started
    /\ started' = TRUE
    /\ prefab' = "renderable"
    /\ progress' = "Loading"
    /\ UNCHANGED <<state, scene, panicked>>
    /\ UNCHANGED <<worldVars, uiVars, clockVars, fpsVars, systemVars,
                   pending, tickVars>>

\* Loading::update with the arms of Complete and Loading confused.
LoadingTransEager(completion) ==
    CASE completion = "Failed" -> "Quit"
      [] OTHER                 -> "Switch"

\* The transition Loading::update returns.
LoadingTrans(completion) ==
    CASE completion = "Failed"   -> "Quit"
      [] completion = "Complete" -> "Switch"
      [] OTHER                   -> "None"

\* Loading::update.
LoadingUpdate ==
    /\ Running /\ state = "Loading" /\ started
    /\ "state_update" \in pending
    /\ pending' = pending \ {"state_update"}
    /\ LET trans == LoadingTrans(progress) IN
         /\ entities' = IF trans = "Switch" THEN entities \ {"loading"}
                        ELSE entities
         /\ panicked' = (trans = "Switch" /\ prefab = None)
         /\ state' = CASE trans = "Quit" -> "Quit"
                       [] trans = "Switch" /\ prefab # None -> "Example"
                       [] OTHER -> state
         /\ scene' = IF trans = "Switch" /\ prefab # None THEN prefab
                     ELSE scene
         /\ started' = IF trans = "Switch" /\ prefab # None THEN FALSE
                       ELSE started
    /\ UNCHANGED <<progress, prefab, camera, transforms>>
    /\ UNCHANGED <<uiVars, clockVars, fpsVars, systemVars, tickVars>>

\* Example::on_start: an entity for the scene prefab and the plane mesh.
ExampleOnStart ==
    /\ Running /\ state = "Example" /\ ~started
    /\ started' = TRUE
    /\ entities' = entities \cup {"scene", "mesh"}
    /\ transforms' = [e \in DOMAIN transforms \cup {"mesh"} |->
                        IF e = "mesh" THEN MeshTransform ELSE transforms[e]]
    /\ UNCHANGED <<state, progress, prefab, scene, panicked, camera>>
    /\ UNCHANGED <<uiVars, clockVars, fpsVars, systemVars, pending, tickVars>>

\* Example has no update of its own: the default returns Trans::None.
ExampleUpdate ==
    /\ Running /\ state = "Example" /\ started
    /\ "state_update" \in pending
    /\ pending' = pending \ {"state_update"}
    /\ UNCHANGED <<appVars, worldVars, uiVars, clockVars, fpsVars,
                   systemVars, tickVars>>

\* ------------------------------------------------------------------------
\* The engine around the example: assets, UI, clock, FPS counter
\* ------------------------------------------------------------------------

\* The loads registered by Loading::on_start finish or fail.
AssetsSettle ==
    /\ Running /\ state = "Loading" /\ started /\ progress = "Loading"
    /\ \E completion \in {"Complete", "Failed"} : progress' = completion
    /\ UNCHANGED <<state, started, prefab, scene, panicked>>
    /\ UNCHANGED <<worldVars, uiVars, clockVars, fpsVars, systemVars,
                   pending, tickVars>>

\* The UI loader builds the entity of "ui/loading.ron".
LoadingUiCreate ==
    /\ Running /\ state = "Loading" /\ started /\ "loading" \notin entities
    /\ entities' = entities \cup {"loading"}
    /\ UNCHANGED <<appVars, camera, transforms>>
    /\ UNCHANGED <<uiVars, clockVars, fpsVars, systemVars, pending, tickVars>>

\* The prefab loader builds the entities of the scene prefab.
PrefabInstantiate ==
    /\ Running /\ "scene" \in entities /\ "camera_a" \notin entities
    /\ entities' = entities \cup PrefabCameras \cup DOMAIN PrefabTransforms
    /\ camera' = camera \cup PrefabCameras
    /\ transforms' = [e \in DOMAIN transforms \cup DOMAIN PrefabTransforms |->
                        IF e \in DOMAIN PrefabTransforms
                        THEN PrefabTransforms[e] ELSE transforms[e]]
    /\ UNCHANGED <<appVars, uiVars, clockVars, fpsVars, systemVars,
                   pending, tickVars>>

\* The entity named "fps_text" appears, is replaced, or goes away.
FinderChange ==
    /\ Running /\ started
    /\ \E found \in UiEntities \cup {None} :
         /\ found # finder_fps
         /\ finder_fps' = found
    /\ UNCHANGED ui_text
    /\ UNCHANGED <<appVars, worldVars, clockVars, fpsVars, systemVars,
                   pending, tickVars>>

\* A UI entity gets its UiText component.
UiTextInsert ==
    /\ Running /\ started
    /\ \E e \in UiEntities \ DOMAIN ui_text :
         ui_text' = [x \in DOMAIN ui_text \cup {e} |->
                        IF x = e THEN NoText ELSE ui_text[x]]
    /\ UNCHANGED finder_fps
    /\ UNCHANGED <<appVars, worldVars, clockVars, fpsVars, systemVars,
                   pending, tickVars>>

\* A UI entity loses its UiText component (or is deleted).
UiTextRemove ==
    /\ Running /\ started
    /\ \E e \in DOMAIN ui_text :
         ui_text' = [x \in DOMAIN ui_text \ {e} |-> ui_text[x]]
    /\ UNCHANGED finder_fps
    /\ UNCHANGED <<appVars, worldVars, clockVars, fpsVars, systemVars,
                   pending, tickVars>>

\* The clock starts the next frame once every step of this one has run.
BeginFrame(maxFrame, maxElapsed) ==
    /\ Running /\ started /\ pending = {}
    /\ frame_number < maxFrame
    /\ state = "Loading" => frame_number < MaxLoadingFrame
    /\ frame_number' = frame_number + 1
    /\ \E n \in ClockSeconds :
         /\ absolute_time + n <= maxElapsed
         /\ delta_seconds' = F32FromInt(n)
         /\ absolute_time' = absolute_time + n
    /\ pending' = Steps
    /\ lookup_called' = FALSE
    /\ written_sample' = NoWrite
    /\ UNCHANGED found_ever
    /\ UNCHANGED <<appVars, worldVars, uiVars, fpsVars, systemVars>>

\* A system is dispatched after the state's update and after the systems it
\* was registered to depend on.
CanDispatch(system, deps) ==
    /\ Running /\ started
    /\ system \in pending
    /\ "state_update" \notin pending
    /\ deps \cap pending = {}

\* The FPS counter system commits this frame's sample.
FpsCounterRun ==
    /\ CanDispatch("fps_counter_system", {})
    /\ pending' = pending \ {"fps_counter_system"}
    /\ \E sample \in FpsSamples : sampled_fps' = sample
    /\ fps_frame' = frame_number
    /\ UNCHANGED <<appVars, worldVars, uiVars, clockVars, systemVars, tickVars>>

\* ------------------------------------------------------------------------
\* ExampleSystem::run
\* ------------------------------------------------------------------------

\* 0.1 as an f32.
camera_angular_velocity == 1036831949

\* The angle of delta_rot (and the increment of camera_angle).
DeltaAngle(dt) == F32Mul(camera_angular_velocity, dt)

\* `=` written for `+=`.
CameraAngleSet(angle, dt) == F32Mul(camera_angular_velocity, dt)

\* state.camera_angle += camera_angular_velocity * time.delta_seconds()
CameraAngleAfter(angle, dt) == F32Add(angle, F32Mul(camera_angular_velocity, dt))

\* orientation * rot: the rotation appended on the right.
RotateRight(units, q) ==
    IF q.base = "identity" THEN [q EXCEPT !.pre = @ + units + q.post, !.post = 0]
    ELSE [q EXCEPT !.post = @ + units]

\* rot * orientation, rot a rotation of `units` about z.
RotateLeft(units, q) ==
    IF q.base = "identity" THEN [q EXCEPT !.pre = @ + units + q.post, !.post = 0]
    ELSE [q EXCEPT !.pre = @ + units]

\* rot * vector: a vector on the z axis stays where it is.
RotateVector(units, t) ==
    IF t.vec[1] = 0 /\ t.vec[2] = 0 THEN t ELSE [t EXCEPT !.rot = @ + units]

\* Only the rotation part of the isometry is multiplied.
RotateOrientationOnly(units, tr) ==
    [tr EXCEPT !.rotation = RotateLeft(units, @)]

\* delta_rot * transform.isometry(), written back through isometry_mut():
\* the product of a rotation and an isometry turns both of its parts.
RotateIsometry(units, tr) ==
    [tr EXCEPT !.rotation    = RotateLeft(units, @),
               !.translation = RotateVector(units, @)]

\* The join without the Camera storage.
JoinAllTransforms(cams, trs) == DOMAIN trs

\* (&camera, &mut transforms).join()
JoinCameraTransforms(cams, trs) == cams \cap DOMAIN trs

\* The lookup done on every tick.
LookupAlways(cached) == TRUE

\* if let None = self.fps_display
LookupNeeded(cached) == cached = None

\* The found entity is never stored.
ResolveNever(cached, found) == cached

\* A failed lookup falls back to a fixed entity.
ResolveOrFirst(cached, found) ==
    IF cached # None THEN cached
    ELSE IF found # None THEN found ELSE "fps_a"

\* self.fps_display after the lookup block.
ResolveFpsDisplay(cached, found) ==
    IF LookupNeeded(cached) /\ found # None THEN found ELSE cached

\* A period of 10 frames.
ShouldWriteFpsTen(frame) == frame % 10 = 0

\* time.frame_number() % 20 == 0
ShouldWriteFps(frame) == frame % 20 = 0

\* The entity whose text run() overwrites, None when it overwrites none.
WriteTarget(resolved, texts, frame) ==
    IF resolved # None /\ resolved \in DOMAIN texts /\ ShouldWriteFps(frame)
    THEN resolved ELSE None

TwoDigits(n) == IF n < 10 THEN "0" \o ToString(n) ELSE ToString(n)

\* format!("FPS: {:.*}", 2, fps) for 0.0 and for values in [1, 2^23).
FormatFps(fps) ==
    LET scaled == F32Mant(fps) * 100
        k      == 0 - F32E(fps)
        cents  == IF fps = 0 THEN 0
                  ELSE RoundEven(scaled \div 2^k, scaled % 2^k, 2^(k - 1))
    IN  "FPS: " \o ToString(cents \div 100) \o "." \o TwoDigits(cents % 100)

ExampleSystemRun ==
    /\ CanDispatch("example_system", ExampleSystemDeps)
    /\ pending' = pending \ {"example_system"}
    /\ LET units    == Exact(DeltaAngle(delta_seconds))
           joined   == JoinCameraTransforms(camera, transforms)
           resolved == ResolveFpsDisplay(fps_display, finder_fps)
           target   == WriteTarget(resolved, ui_text, frame_number)
       IN  /\ camera_angle' = CameraAngleAfter(camera_angle, delta_seconds)
           /\ transforms' = [e \in DOMAIN transforms |->
                                IF e \in joined
                                THEN RotateIsometry(units, transforms[e])
                                ELSE transforms[e]]
           /\ lookup_called' = LookupNeeded(fps_display)
           /\ found_ever' = (found_ever \/
                               (LookupNeeded(fps_display) /\ finder_fps # None))
           /\ fps_display' = resolved
           /\ ui_text' = IF target # None
                         THEN [ui_text EXCEPT ![target] = FormatFps(sampled_fps)]
                         ELSE ui_text
           /\ written_sample' = IF target # None THEN fps_frame ELSE NoWrite
    /\ UNCHANGED <<appVars, entities, camera, finder_fps, clockVars, fpsVars>>

\* ------------------------------------------------------------------------
\* Specifications
\* ------------------------------------------------------------------------

Frame == BeginFrame(MaxFrame, MaxElapsed)

OrbitFrame == BeginFrame(MaxOrbitFrame, MaxOrbitElapsed)

Next ==
    \/ LoadingOnStart
    \/ LoadingUpdate
    \/ ExampleOnStart
    \/ ExampleUpdate
    \/ AssetsSettle
    \/ LoadingUiCreate
    \/ PrefabInstantiate
    \/ FinderChange
    \/ UiTextInsert
    \/ UiTextRemove
    \/ Frame
    \/ FpsCounterRun
    \/ ExampleSystemRun

Spec == Init /\ [][Next]_vars

\* The same program with no "fps_text" UI and a clock that runs few, long
\* frames: the orbit of the cameras.
NextOrbit ==
    \/ LoadingOnStart
    \/ LoadingUpdate
    \/ ExampleOnStart
    \/ ExampleUpdate
    \/ AssetsSettle
    \/ LoadingUiCreate
    \/ PrefabInstantiate
    \/ OrbitFrame
    \/ FpsCounterRun
    \/ ExampleSystemRun

SpecOrbit == Init /\ [][NextOrbit]_vars

TypeOK ==
    /\ state \in {"Loading", "Example", "Quit"}
    /\ fps_display \in UiEntities \cup {None}
    /\ pending \subseteq Steps
    /\ frame_number \in 0..(MaxFrame + 1)

\* ------------------------------------------------------------------------
\* Properties
\* ------------------------------------------------------------------------

\* This step is a call of ExampleSystem::run.
RanExample == "example_system" \in pending /\ "example_system" \notin pending'

\* This step is a call of Loading::update.
RanLoadingUpdate ==
    state = "Loading" /\ "state_update" \in pending /\ "state_update" \notin pending'

\* Half the distance between an f32 and its neighbour, in units of 2^-28.
HalfUlp(b) == IF b = 0 THEN 0 ELSE 2^(F32E(b) + 27)

\* C1: on a tick whose cached handle is resolved and whose cached entity has
\* a UiText, run() overwrites that text with the formatted sample if the
\* frame number is divisible by 20, and leaves every text alone if not.
ThmC1 ==
    [][(RanExample /\ fps_display' # None /\ fps_display' \in DOMAIN ui_text)
        => IF frame_number % 20 = 0
           THEN /\ written_sample' # NoWrite
                /\ ui_text' = [ui_text EXCEPT
                                 ![fps_display'] = FormatFps(sampled_fps)]
           ELSE /\ written_sample' = NoWrite
                /\ ui_text' = ui_text]_vars

\* The text was written in frame 40, after the writes of frames 0 and 20.
WitC1 ==
    /\ frame_number = 40
    /\ written_sample # NoWrite
    /\ fps_display \in DOMAIN ui_text
    /\ ui_text[fps_display] = FormatFps(sampled_fps)

\* C2: a resolved fps_display never changes again, whatever the finder would
\* return and whether or not the entity has a UiText, and a tick that starts
\* with a resolved handle does not call the finder.
ThmC2 ==
    [][fps_display # None
        => /\ fps_display' = fps_display
           /\ RanExample => ~lookup_called']_vars

\* run() has finished a tick that started with a resolved handle while the
\* finder answers with another entity and the cached one has no UiText.
WitC2 ==
    /\ "example_system" \notin pending
    /\ ~lookup_called
    /\ fps_display # None
    /\ finder_fps \in UiEntities \ {fps_display}
    /\ fps_display \notin DOMAIN ui_text
    /\ frame_number >= 20

\* C3: as long as no lookup by run() has returned an entity, the handle is
\* unset, every UiText still has the text it was created with, nothing has
\* panicked, and each tick still advances the angle and turns the cameras.
ThmC3 ==
    [][~found_ever'
        => /\ fps_display' = None
           /\ \A e \in DOMAIN ui_text' : ui_text'[e] = NoText
           /\ ~panicked'
           /\ RanExample =>
                /\ camera_angle' = F32Add(camera_angle,
                       F32Mul(camera_angular_velocity, delta_seconds))
                /\ \A e \in camera \cap DOMAIN transforms :
                     transforms'[e].rotation.pre = transforms[e].rotation.pre
                       + Exact(F32Mul(camera_angular_velocity, delta_seconds))]_vars

\* Forty ticks without a successful lookup, with UiText components around,
\* cameras turned and the angle advanced.
WitC3 ==
    /\ ~found_ever
    /\ frame_number = 40
    /\ "example_system" \notin pending
    /\ lookup_called
    /\ DOMAIN ui_text = UiEntities
    /\ camera_angle # 0
    /\ "camera_a" \in DOMAIN transforms
    /\ transforms["camera_a"].rotation.pre # 0

\* C4 as stated: on every tick the exact increase of camera_angle is the
\* angle 0.1 * t of that tick's incremental rotation.
CexC4 ==
    [][RanExample
        => Exact(camera_angle') - Exact(camera_angle)
             = Exact(F32Mul(camera_angular_velocity, delta_seconds))]_vars

\* C4, amended: on every tick camera_angle becomes the f32 sum of its old
\* value and the f32 product 0.1 * t, the product being the angle of the
\* rotation applied to every camera on that tick; the increase differs from
\* that angle by at most half a unit in the last place of the new value.
ThmC4 ==
    [][RanExample
        => LET angle == F32Mul(camera_angular_velocity, delta_seconds)
               error == Exact(camera_angle') - Exact(camera_angle) - Exact(angle)
           IN  /\ camera_angle' = F32Add(camera_angle, angle)
               /\ \A e \in camera \cap DOMAIN transforms :
                    transforms'[e].rotation.pre
                      = transforms[e].rotation.pre + Exact(angle)
               /\ 2 * error <= HalfUlp(camera_angle')
               /\ 0 - 2 * error <= HalfUlp(camera_angle')]_vars

\* Three ticks of one second: 0.1 + 0.1 + 0.1 has been rounded up, and the
\* cameras have been turned.
WitC4 ==
    /\ "example_system" \notin pending
    /\ absolute_time = 3
    /\ camera_angle = 1050253722
    /\ "camera_a" \in DOMAIN transforms
    /\ transforms["camera_a"].rotation.pre > 0

\* C5 as stated: a tick leaves translation and scale of every camera's
\* Transform as they were.
CexC5 ==
    [][RanExample
        => \A e \in camera \cap DOMAIN transforms :
             /\ transforms'[e].translation = transforms[e].translation
             /\ transforms'[e].scale = transforms[e].scale]_vars

\* C5, amended: a tick changes only the isometry of a camera's Transform:
\* the orientation is multiplied on the left by the incremental rotation and
\* the translation vector is turned by the same rotation about the z axis
\* (it stays put only on the z axis or for a zero angle); scale is kept.
ThmC5 ==
    [][RanExample
        => LET units == Exact(F32Mul(camera_angular_velocity, delta_seconds))
           IN  \A e \in camera \cap DOMAIN transforms :
                 LET old == transforms[e]
                     new == transforms'[e]
                     onAxis == old.translation.vec[1] = 0
                                 /\ old.translation.vec[2] = 0
                 IN  /\ new.scale = old.scale
                     /\ new.translation.vec = old.translation.vec
                     /\ new.translation.rot =
                          IF onAxis THEN old.translation.rot
                          ELSE old.translation.rot + units
                     /\ new.rotation.base = old.rotation.base
                     /\ new.rotation.post = old.rotation.post
                     /\ new.rotation.pre = old.rotation.pre + units]_vars

\* A camera off the z axis has been carried around it, one on the axis has
\* only been turned.
WitC5 ==
    /\ "camera_a" \in DOMAIN transforms
    /\ transforms["camera_a"].translation.rot > 0
    /\ transforms["camera_b"].translation.rot = 0
    /\ transforms["camera_b"].rotation.pre > 0

\* C6 as stated: the sample run() writes into the text was produced by the
\* FPS counter in the same frame.
CexC6 == written_sample # NoWrite => written_sample = frame_number

\* C7: the handle leaves None only in a call of run() that finds the entity
\* for the first time, and takes that entity; until then every call of run()
\* does the lookup; afterwards the handle is never None again.
ThmC7 ==
    [][/\ (RanExample /\ fps_display = None)
            => (lookup_called' /\ fps_display' = finder_fps)
       /\ fps_display' # fps_display
            => /\ RanExample
               /\ fps_display = None
               /\ finder_fps # None
               /\ ~found_ever /\ found_ever'
       /\ found_ever' <=> fps_display' # None
       /\ found_ever => found_ever']_vars

\* The handle was resolved in this tick, after ticks in which it was not.
WitC7 ==
    /\ "example_system" \notin pending
    /\ lookup_called
    /\ fps_display # None
    /\ fps_display = finder_fps
    /\ frame_number >= 2

\* C8: a tick replaces the orientation of every entity with Camera and
\* Transform by (rotation of 0.1 * t about z) * orientation, an angle of
\* exactly 1.0 radian for t = 10, and leaves the Transform of every entity
\* without Camera unchanged.
ThmC8 ==
    [][RanExample
        => LET units == Exact(F32Mul(camera_angular_velocity, delta_seconds))
           IN  /\ \A e \in camera \cap DOMAIN transforms :
                    transforms'[e].rotation =
                      [transforms[e].rotation EXCEPT !.pre = @ + units]
               /\ \A e \in DOMAIN transforms \ camera :
                    transforms'[e] = transforms[e]
               /\ DOMAIN transforms' = DOMAIN transforms
               /\ delta_seconds = F32FromInt(10) => units = 2^27]_vars

\* Ten seconds have elapsed in one tick: the camera that started at the
\* identity is turned by 1.0 radian, the tilted one has the rotation on its
\* left, mesh and light are where they were.
WitC8 ==
    /\ absolute_time = 10
    /\ "camera_b" \in DOMAIN transforms
    /\ transforms["camera_b"].rotation = [Identity EXCEPT !.pre = 2^27]
    /\ transforms["camera_a"].rotation.pre = 2^27
    /\ transforms["camera_a"].rotation.post = 0
    /\ transforms["mesh"] = MeshTransform
    /\ transforms["light"] = PrefabTransforms["light"]

\* C9: a tick without cameras changes no Transform, a tick whose cached
\* entity is unset or has no UiText changes no text; either way nothing
\* panics, a resolved handle is kept and camera_angle advances; and a tick
\* that finds the component present on a frame divisible by 20 writes it.
ThmC9 ==
    [][RanExample
        => /\ (camera \cap DOMAIN transforms = {}) => transforms' = transforms
           /\ (fps_display' = None \/ fps_display' \notin DOMAIN ui_text)
                => (ui_text' = ui_text /\ written_sample' = NoWrite)
           /\ fps_display # None => fps_display' = fps_display
           /\ camera_angle' = F32Add(camera_angle,
                  F32Mul(camera_angular_velocity, delta_seconds))
           /\ ~panicked'
           /\ (fps_display' \in DOMAIN ui_text /\ frame_number % 20 = 0)
                => /\ written_sample' # NoWrite
                   /\ ui_text'[fps_display'] = FormatFps(sampled_fps)]_vars

\* Frame 20 passed without a write because the cached entity had lost its
\* UiText, there was no camera to turn, and the angle has advanced.
WitC9 ==
    /\ frame_number = 20
    /\ "example_system" \notin pending
    /\ ~lookup_called
    /\ fps_display # None
    /\ fps_display \notin DOMAIN ui_text
    /\ written_sample = NoWrite
    /\ camera = {}
    /\ "mesh" \in DOMAIN transforms
    /\ camera_angle # 0

\* C10: Loading::update returns Trans::None while the progress is Loading,
\* quits when it is Failed, and switches to Example only when it is
\* Complete, with the "loading" entity gone and the prefab handle of
\* on_start as the scene; the unwrap never panics.
ThmC10 ==
    [][/\ RanLoadingUpdate
            => CASE progress = "Loading"
                      -> (state' = "Loading" /\ entities' = entities)
                 [] progress = "Failed"
                      -> state' = "Quit"
                 [] OTHER
                      -> /\ state' = "Example"
                         /\ "loading" \notin entities'
                         /\ scene' = "renderable"
       /\ state' # state => RanLoadingUpdate
       /\ state' = "Example" => (progress' = "Complete" /\ scene' = prefab')
       /\ ~panicked']_vars

\* Example was entered and the "loading" entity, which had been built, is
\* gone.
WitC10 ==
    /\ state = "Example"
    /\ started
    /\ scene = "renderable"
    /\ progress = "Complete"
    /\ "loading" \notin entities
    /\ "scene" \in entities

====
